---- MODULE Spec2Model ----
(***************************************************************************)
(* Chronicler: the changelog service of src/backend/main.py.               *)
(*                                                                         *)
(* Text is a sequence of one-character strings, so that lower(), strip(),  *)
(* `in`, join and re.search work on characters as they do in Python.  An   *)
(* emoji of a heading is one element of the sequence.                      *)
(*                                                                         *)
(* An Optional value is a sequence of length at most one: <<>> is None.    *)
(* A datetime is [day, time]: replace(hour=0, ...) sets time to 0 and      *)
(* timedelta(days=n) subtracts n from day.                                 *)
(***************************************************************************)
EXTENDS Integers, Sequences, FiniteSets, TLC

VARIABLES openai_api_key, repo, request, result, call, changelogs, workers, reply

vars == <<openai_api_key, repo, request, result, call, changelogs, workers, reply>>

(* Bounds of the model: the commits of the repository's history, and the   *)
(* commits and patterns of one call of a function applied on its own.      *)
MaxHistory == 2
MaxCommits == 3
MaxPatterns == 2

---------------------------------------------------------------------------
(* Python str operations used by main.py. *)

(* The upper-case letters and their lower-case forms. *)
CaseMap ==
    "A" :> "a" @@ "B" :> "b" @@ "C" :> "c" @@ "D" :> "d" @@ "E" :> "e" @@ "F" :> "f"
    @@ "G" :> "g" @@ "H" :> "h" @@ "I" :> "i" @@ "J" :> "j" @@ "K" :> "k" @@ "L" :> "l"
    @@ "M" :> "m" @@ "N" :> "n" @@ "O" :> "o" @@ "P" :> "p" @@ "Q" :> "q" @@ "R" :> "r"
    @@ "S" :> "s" @@ "T" :> "t" @@ "U" :> "u" @@ "V" :> "v" @@ "W" :> "w" @@ "X" :> "x"
    @@ "Y" :> "y" @@ "Z" :> "z"

Whitespace == {" ", "\n", "\t", "\r"}

chr_lower(c) == IF c \in DOMAIN CaseMap THEN CaseMap[c] ELSE c

str_lower(s) == [i \in 1..Len(s) |-> chr_lower(s[i])]

str_strip(s) ==
    LET keep == {i \in 1..Len(s) : s[i] \notin Whitespace}
    IN  IF keep = {} THEN <<>>
        ELSE SubSeq(s, CHOOSE i \in keep : \A j \in keep : i <= j,
                       CHOOSE i \in keep : \A j \in keep : i >= j)

str_contains(w, s) ==
    \E i \in 0..(Len(s) - Len(w)) : SubSeq(s, i + 1, i + Len(w)) = w

RECURSIVE str_join(_, _)
str_join(sep, parts) ==
    IF parts = <<>> THEN <<>>
    ELSE IF Len(parts) = 1 THEN parts[1]
    ELSE parts[1] \o sep \o str_join(sep, Tail(parts))

---------------------------------------------------------------------------
(* re.search(pattern, string, re.IGNORECASE), for patterns made of literal *)
(* characters, the anchor ^ and group parentheses.                         *)

RECURSIVE re_balanced(_, _, _)
re_balanced(pattern, i, depth) ==
    IF i > Len(pattern) THEN depth = 0
    ELSE IF pattern[i] = "(" THEN re_balanced(pattern, i + 1, depth + 1)
    ELSE IF pattern[i] = ")" THEN depth > 0 /\ re_balanced(pattern, i + 1, depth - 1)
    ELSE re_balanced(pattern, i + 1, depth)

(* re.compile succeeds: re.error is raised for an unbalanced parenthesis. *)
re_compiles(pattern) == re_balanced(pattern, 1, 0)

RECURSIVE re_match_at(_, _, _, _)
re_match_at(pattern, k, string, pos) ==
    IF k > Len(pattern) THEN TRUE
    ELSE IF pattern[k] \in {"(", ")"} THEN re_match_at(pattern, k + 1, string, pos)
    ELSE IF pattern[k] = "^" THEN pos = 0 /\ re_match_at(pattern, k + 1, string, pos)
    ELSE /\ pos < Len(string)
         /\ chr_lower(string[pos + 1]) = chr_lower(pattern[k])
         /\ re_match_at(pattern, k + 1, string, pos + 1)

(* re.match in place of re.search: a match at the start of the string only. *)
re_search_as_match(pattern, string) == re_match_at(pattern, 1, string, 0)

re_search(pattern, string) ==
    \E pos \in 0..Len(string) : re_match_at(pattern, 1, string, pos)

---------------------------------------------------------------------------
(* Exceptions and returns.  A call either returns a value or raises. *)

NoExc == [type |-> "", status_code |-> 0, detail |-> ""]

Exc(type) == [type |-> type, status_code |-> 0, detail |-> ""]

HTTPException(status_code, detail) ==
    [type |-> "HTTPException", status_code |-> status_code, detail |-> detail]

Return(value) == [raised |-> FALSE, exc |-> NoExc, value |-> value]

Raise(exc) == [raised |-> TRUE, exc |-> exc, value |-> <<>>]

(* The exceptions of git.exc that derive from GitError. *)
GitError == {"NoSuchPathError", "GitCommandError"}

---------------------------------------------------------------------------
(* filter_commits *)

(* The inner loop over exclude_patterns: "True" at the first pattern that  *)
(* matches (break), "False" when none does, "re.error" when re.search      *)
(* reaches a pattern that does not compile.                                *)
RECURSIVE should_exclude(_, _, _)
should_exclude(message, exclude_patterns, k) ==
    IF k > Len(exclude_patterns) THEN "False"
    ELSE IF ~re_compiles(exclude_patterns[k]) THEN "re.error"
    ELSE IF re_search(exclude_patterns[k], message) THEN "True"
    ELSE should_exclude(message, exclude_patterns, k + 1)

RECURSIVE filter_loop(_, _, _, _)
filter_loop(commits, exclude_patterns, i, filtered) ==
    IF i > Len(commits) THEN Return(filtered)
    ELSE LET excl == should_exclude(commits[i].message, exclude_patterns, 1)
         IN  IF excl = "re.error" THEN Raise(Exc("re.error"))
             ELSE filter_loop(commits, exclude_patterns, i + 1,
                              IF excl = "True" THEN filtered
                              ELSE Append(filtered, commits[i]))

(* filtered.insert(0, commit) in place of filtered.append(commit). *)
filter_commits_prepends(commits, exclude_patterns) ==
    LET kept == filter_loop(commits, exclude_patterns, 1, <<>>)
    IN  IF kept.raised THEN kept
        ELSE Return([i \in 1..Len(kept.value) |-> kept.value[Len(kept.value) - i + 1]])

filter_commits(commits, exclude_patterns) ==
    filter_loop(commits, exclude_patterns, 1, <<>>)

---------------------------------------------------------------------------
(* generate_simple_changelog *)

FeatureWords == << <<"f", "e", "a", "t">>, <<"f", "e", "a", "t", "u", "r", "e">>,
                   <<"a", "d", "d">>, <<"n", "e", "w">> >>

FixWords == << <<"f", "i", "x">>, <<"b", "u", "g">>,
               <<"r", "e", "s", "o", "l", "v", "e">>, <<"p", "a", "t", "c", "h">> >>

ImprovementWords == << <<"i", "m", "p", "r", "o", "v", "e">>,
                       <<"e", "n", "h", "a", "n", "c", "e">>,
                       <<"u", "p", "d", "a", "t", "e">>,
                       <<"o", "p", "t", "i", "m", "i", "z", "e">> >>

FeaturesHeading ==
    <<"#", "#", " ", "<rocket>", " ", "N", "e", "w", " ", "F", "e", "a", "t", "u", "r", "e", "s">>

FixesHeading ==
    <<"#", "#", " ", "<bug>", " ", "B", "u", "g", " ", "F", "i", "x", "e", "s">>

ImprovementsHeading ==
    <<"#", "#", " ", "<bulb>", " ", "I", "m", "p", "r", "o", "v", "e", "m", "e", "n", "t", "s">>

OtherHeading ==
    <<"#", "#", " ", "<memo>", " ", "O", "t", "h", "e", "r", " ", "C", "h", "a", "n", "g", "e", "s">>

NL == <<"\n">>

(* any(word in msg for word in words) *)
any_word_in(words, msg) == \E k \in 1..Len(words) : str_contains(words[k], msg)

(* f"- {commit.message}" *)
bullet(message) == <<"-", " ">> \o message

(* The if / elif chain with the Bug Fixes test ahead of the Features test. *)
bucket_of_fixes_first(message) ==
    LET msg == str_lower(message)
    IN  IF any_word_in(FixWords, msg) THEN "fixes"
        ELSE IF any_word_in(FeatureWords, msg) THEN "features"
        ELSE IF any_word_in(ImprovementWords, msg) THEN "improvements"
        ELSE "other"

(* The bucket one commit is appended to: the if / elif chain. *)
bucket_of(message) ==
    LET msg == str_lower(message)
    IN  IF any_word_in(FeatureWords, msg) THEN "features"
        ELSE IF any_word_in(FixWords, msg) THEN "fixes"
        ELSE IF any_word_in(ImprovementWords, msg) THEN "improvements"
        ELSE "other"

RECURSIVE classify_loop(_, _, _)
classify_loop(commits, i, lists) ==
    IF i > Len(commits) THEN lists
    ELSE LET b == bucket_of(commits[i].message)
         IN  classify_loop(commits, i + 1,
                           [lists EXCEPT ![b] = Append(@, bullet(commits[i].message))])

(* The four lists after the loop over commits. *)
simple_buckets(commits) ==
    classify_loop(commits, 1,
                  [features |-> <<>>, fixes |-> <<>>, improvements |-> <<>>, other |-> <<>>])

(* if items: changelog += heading + "\n" + "\n".join(items) + "\n\n" *)
section(heading, items) ==
    IF items = <<>> THEN <<>>
    ELSE heading \o NL \o str_join(NL, items) \o NL \o NL

(* return changelog, without .strip(). *)
generate_simple_changelog_unstripped(commits) ==
    LET lists == simple_buckets(commits)
    IN  section(FeaturesHeading, lists.features)
        \o section(FixesHeading, lists.fixes)
        \o section(ImprovementsHeading, lists.improvements)
        \o section(OtherHeading, lists.other)

generate_simple_changelog(commits) ==
    LET lists == simple_buckets(commits)
    IN  str_strip(section(FeaturesHeading, lists.features)
                  \o section(FixesHeading, lists.fixes)
                  \o section(ImprovementsHeading, lists.improvements)
                  \o section(OtherHeading, lists.other))

---------------------------------------------------------------------------
(* generate_ai_changelog.  The completion is what the OpenAI client does   *)
(* on this call: [raises, choices], each choice holding an Optional        *)
(* message content.                                                        *)

(* client.chat.completions.create(...) and response.choices[0].message.content.strip() *)
ai_try(completion) ==
    IF completion.raises THEN Raise(Exc("APIError"))
    ELSE IF completion.choices = <<>> THEN Raise(Exc("IndexError"))
    ELSE IF completion.choices[1].content = <<>> THEN Raise(Exc("AttributeError"))
    ELSE Return(str_strip(completion.choices[1].content[1]))

(* Without the except clause: what the try body raises reaches the caller. *)
generate_ai_changelog_propagates(commits, completion) ==
    IF ~openai_api_key THEN Return(generate_simple_changelog(commits))
    ELSE ai_try(completion)

generate_ai_changelog(commits, completion) ==
    IF ~openai_api_key THEN Return(generate_simple_changelog(commits))
    ELSE IF ai_try(completion).raised THEN Return(generate_simple_changelog(commits))
    ELSE ai_try(completion)

(* The test of the key inverted. *)
ai_requests_inverted == IF openai_api_key THEN 0 ELSE 1

(* A second completion request after the first. *)
ai_requests_with_retry == IF openai_api_key THEN 2 ELSE 0

(* The number of completion requests generate_ai_changelog sends. *)
ai_requests == IF openai_api_key THEN 1 ELSE 0

---------------------------------------------------------------------------
(* The summary dictionary of generate_changelog. *)

(* from and to taken from the wrong ends of filtered_commits. *)
summary_of_swapped(commits, filtered_commits) ==
    [total_commits    |-> Len(commits),
     filtered_commits |-> Len(filtered_commits),
     authors          |-> {filtered_commits[i].author : i \in 1..Len(filtered_commits)},
     date_range       |->
         [from |-> IF filtered_commits # <<>>
                   THEN <<filtered_commits[1].date>> ELSE <<>>,
          to   |-> IF filtered_commits # <<>>
                   THEN <<filtered_commits[Len(filtered_commits)].date>> ELSE <<>>]]

summary_of(commits, filtered_commits) ==
    [total_commits    |-> Len(commits),
     filtered_commits |-> Len(filtered_commits),
     authors          |-> {filtered_commits[i].author : i \in 1..Len(filtered_commits)},
     date_range       |->
         [from |-> IF filtered_commits # <<>>
                   THEN <<filtered_commits[Len(filtered_commits)].date>> ELSE <<>>,
          to   |-> IF filtered_commits # <<>>
                   THEN <<filtered_commits[1].date>> ELSE <<>>]]

---------------------------------------------------------------------------
(* The repository that git.Repo(repo_path) opens: a linear history, HEAD   *)
(* first and the root commit last.  A commit's committed date is whatever  *)
(* the committer's clock said: git does not order it after its parent's.   *)

GitCommits ==
    {[hexsha |-> <<"a", "1", "b", "2", "c", "3", "d", "4", "e", "5">>,
      message |-> <<"f", "e", "a", "t", ":", " ", "a", "d", "d", " ", "e", "x", "p", "o", "r", "t", "\n">>,
      author |-> "alice", committed_datetime |-> [day |-> 3, time |-> 0],
      paths |-> <<"export.py">>, diff_fails |-> FALSE],
     [hexsha |-> <<"b", "2", "c", "3", "d", "4", "e", "5", "f", "6">>,
      message |-> <<"c", "h", "o", "r", "e", ":", " ", "l", "i", "n", "t", "\n">>,
      author |-> "bob", committed_datetime |-> [day |-> 2, time |-> 1],
      paths |-> <<"a.py", "b.py">>, diff_fails |-> FALSE],
     [hexsha |-> <<"c", "3", "d", "4", "e", "5", "f", "6", "a", "7">>,
      message |-> <<"f", "i", "x", ":", " ", "n", "u", "l", "l", " ", "p", "o", "i", "n", "t", "e", "r">>,
      author |-> "alice", committed_datetime |-> [day |-> 2, time |-> 0],
      paths |-> <<"main.py">>, diff_fails |-> TRUE],
     [hexsha |-> <<"d", "4", "e", "5", "f", "6", "a", "7", "b", "8">>,
      message |-> <<"C", "H", "O", "R", "E", ":", " ", "b", "u", "m", "p", "\n">>,
      author |-> "carol", committed_datetime |-> [day |-> 1, time |-> 1],
      paths |-> <<"deps.txt">>, diff_fails |-> FALSE]}

(* Histories of 1..MaxHistory distinct commits. *)
Repositories ==
    UNION {{r \in [1..n -> GitCommits] : \A i, j \in 1..n : i # j => r[i] # r[j]}
           : n \in 1..MaxHistory}

(* datetime.now() of a request: today is day 3, at midnight or later in the day. *)
Clock == {[day |-> 3, time |-> 0], [day |-> 3, time |-> 1]}

date_ge(a, b) == a.day > b.day \/ (a.day = b.day /\ a.time >= b.time)

(* git.Repo(repo_path) *)
git_Repo(repo_path) ==
    IF repo_path = "not_a_repository" THEN Raise(Exc("InvalidGitRepositoryError"))
    ELSE IF repo_path = "no_such_path" THEN Raise(Exc("NoSuchPathError"))
    ELSE Return(repo)

(* The position in the history of the commit a revision names; "HEAD~1" of *)
(* a one-commit history names nothing.                                     *)
rev_parse(rev) == IF rev = "HEAD" THEN 1 ELSE 2

(* list(repo.iter_commits("from..to")): the commits reachable from to and  *)
(* not from from, as positions in the history.                             *)
iter_commits_range(history, from_commit, to_commit) ==
    IF rev_parse(from_commit) > Len(history) \/ rev_parse(to_commit) > Len(history)
    THEN Raise(Exc("GitCommandError"))
    ELSE Return([k \in 1..(rev_parse(from_commit) - rev_parse(to_commit))
                     |-> rev_parse(to_commit) + k - 1])

(* list(repo.iter_commits(since=since_date)), as positions in the history: *)
(* the walk from HEAD stops at the first commit older than since_date.     *)
RECURSIVE iter_commits_since(_, _, _)
iter_commits_since(history, i, since_date) ==
    IF i > Len(history) THEN <<>>
    ELSE IF ~date_ge(history[i].committed_datetime, since_date) THEN <<>>
    ELSE <<i>> \o iter_commits_since(history, i + 1, since_date)

---------------------------------------------------------------------------
(* get_git_commits *)

(* `if x` of an Optional[str]: None and "" are false. *)
truthy(x) == x # <<>> /\ x[1] # ""

(* datetime.now().replace(hour=0, minute=0, second=0, microsecond=0) *)
midnight(now) == [now EXCEPT !.time = 0]

(* since_date - timedelta(days=days) *)
minus_days(date, days) == [date EXCEPT !.day = @ - days]

(* The day count taking precedence over the two hashes. *)
git_window_days_first(days, from_commit, to_commit, now) ==
    IF days # <<>>
    THEN [form |-> "since", since_date |-> <<minus_days(midnight(now), days[1])>>]
    ELSE IF truthy(from_commit) /\ truthy(to_commit)
    THEN [form |-> "range", since_date |-> <<>>]
    ELSE [form |-> "since", since_date |-> <<>>]

(* The enumeration get_git_commits asks of the repository. *)
git_window(days, from_commit, to_commit, now) ==
    IF truthy(from_commit) /\ truthy(to_commit)
    THEN [form |-> "range", since_date |-> <<>>]
    ELSE IF days = <<>> THEN [form |-> "since", since_date |-> <<>>]
    ELSE [form |-> "since", since_date |-> <<minus_days(midnight(now), days[1])>>]

(* The diff asked of every commit, the root included. *)
commit_files_of_root(history, i) ==
    IF ~history[i].diff_fails THEN history[i].paths ELSE <<>>

(* The file list of the commit at position i: commit.diff(commit.parents[0]), *)
(* [] for a commit without parents and when the diff raises.                  *)
commit_files(history, i) ==
    IF i < Len(history) /\ ~history[i].diff_fails THEN history[i].paths ELSE <<>>

CommitInfo(history, i) ==
    [hash    |-> SubSeq(history[i].hexsha, 1, 8),
     message |-> str_strip(history[i].message),
     author  |-> history[i].author,
     date    |-> history[i].committed_datetime,
     files   |-> commit_files(history, i)]

get_git_commits(repo_path, days, from_commit, to_commit, now) ==
    LET opened == git_Repo(repo_path)
        window == git_window(days, from_commit, to_commit, now)
        git_commits ==
            IF window.form = "range"
            THEN iter_commits_range(opened.value, from_commit[1], to_commit[1])
            ELSE IF window.since_date = <<>> THEN Raise(Exc("TypeError"))
            ELSE Return(iter_commits_since(opened.value, 1, window.since_date[1]))
    IN  IF opened.raised
        THEN IF opened.exc.type = "InvalidGitRepositoryError"
             THEN Raise(HTTPException(400, "Invalid Git repository path"))
             ELSE opened
        ELSE IF git_commits.raised THEN git_commits
        ELSE Return([k \in 1..Len(git_commits.value)
                         |-> CommitInfo(opened.value, git_commits.value[k])])

---------------------------------------------------------------------------
(* generate_changelog: POST /api/generate *)

(* The title taken from the current date. *)
title_of_now(filtered_commits, now) ==
    [text |-> "Changes - ", day |-> now.day, of |-> "now"]

(* f"Changes - {latest_date.strftime('%B %d, %Y')}": the calendar day of   *)
(* the first surviving commit, or of now when there is none.               *)
title_of(filtered_commits, now) ==
    IF Len(filtered_commits) > 0
    THEN [text |-> "Changes - ", day |-> filtered_commits[1].date.day, of |-> "commit"]
    ELSE [text |-> "Changes - ", day |-> now.day, of |-> "now"]

(* The body of the try statement: what it returns or raises (outcome), and *)
(* its locals when it ends.  commits and filtered_commits are Optional:    *)
(* <<>> when the body did not reach their assignment.  model_calls is the  *)
(* number of completion requests sent while the body ran.                  *)
try_generate(req, now, completion) ==
    LET commits  == get_git_commits(req.repo_path, req.days, req.from_commit,
                                    req.to_commit, now)
        filtered == filter_commits(commits.value, req.exclude_patterns)
        content  == generate_ai_changelog(filtered.value, completion)
    IN  IF commits.raised
        THEN [outcome |-> commits, commits |-> <<>>, filtered_commits |-> <<>>,
              model_calls |-> 0]
        ELSE IF commits.value = <<>>
        THEN [outcome |-> Raise(HTTPException(404, "No commits found in the specified range")),
              commits |-> <<commits.value>>, filtered_commits |-> <<>>, model_calls |-> 0]
        ELSE IF filtered.raised
        THEN [outcome |-> filtered, commits |-> <<commits.value>>, filtered_commits |-> <<>>,
              model_calls |-> 0]
        ELSE IF filtered.value = <<>>
        THEN [outcome |-> Raise(HTTPException(404, "No relevant commits found after filtering")),
              commits |-> <<commits.value>>, filtered_commits |-> <<filtered.value>>,
              model_calls |-> 0]
        ELSE [outcome |->
                  IF content.raised THEN content
                  ELSE Return([title       |-> title_of(filtered.value, now),
                               content     |-> content.value,
                               raw_commits |-> filtered.value,
                               summary     |-> summary_of(commits.value, filtered.value)]),
              commits |-> <<commits.value>>, filtered_commits |-> <<filtered.value>>,
              model_calls |-> ai_requests]

(* The except clauses: what the caller receives when the try body ended    *)
(* with `outcome`.  `cause` is the exception whose text the detail of a    *)
(* 400 "Git error" or of a 500 embeds.                                     *)
except_clauses(outcome) ==
    IF ~outcome.raised
    THEN [status_code |-> 200, detail |-> "", cause |-> NoExc, body |-> <<outcome.value>>]
    ELSE IF outcome.exc.type \in GitError
    THEN [status_code |-> 400, detail |-> "Git error", cause |-> outcome.exc, body |-> <<>>]
    ELSE [status_code |-> 500, detail |-> "Internal server error",
          cause |-> outcome.exc, body |-> <<>>]

generate_changelog(req, now, completion) ==
    except_clauses(try_generate(req, now, completion).outcome)

---------------------------------------------------------------------------
(* The changelogs table of changelog.db (init_db) and the statements that  *)
(* main.py runs on it.  The table is the sequence of its rows in insertion *)
(* order: no statement of main.py deletes a row, so AUTOINCREMENT gives a  *)
(* row its position as id.                                                  *)

(* version TEXT UNIQUE NOT NULL: the constraint holds for a new row. *)
unique_version_dropped(rows, version) == TRUE

unique_version(rows, version) == \A i \in 1..Len(rows) : rows[i].version # version

(* SELECT ... WHERE version = ? ... fetchone(): None or the first such row. *)
select_by_version(rows, version) ==
    LET found == {i \in 1..Len(rows) : rows[i].version = version}
    IN  IF found = {} THEN <<>>
        ELSE <<rows[CHOOSE i \in found : \A j \in found : i <= j]>>

(* The row inserted with the column default of is_published. *)
insert_changelog_unpublished(rows, req, now) ==
    IF ~unique_version(rows, req.version) THEN Raise(Exc("IntegrityError"))
    ELSE Return(Append(rows, [id           |-> Len(rows) + 1,
                              version      |-> req.version,
                              title        |-> req.title,
                              content      |-> req.content,
                              raw_commits  |-> req.raw_commits,
                              created_at   |-> now,
                              published_at |-> <<now>>,
                              is_published |-> FALSE]))

(* INSERT INTO changelogs (...) VALUES (...); conn.commit(): the table     *)
(* with the new row, or sqlite3.IntegrityError and the table as it was.    *)
insert_changelog(rows, req, now) ==
    IF ~unique_version(rows, req.version) THEN Raise(Exc("IntegrityError"))
    ELSE Return(Append(rows, [id           |-> Len(rows) + 1,
                              version      |-> req.version,
                              title        |-> req.title,
                              content      |-> req.content,
                              raw_commits  |-> req.raw_commits,
                              created_at   |-> now,
                              published_at |-> <<now>>,
                              is_published |-> TRUE]))

ChangelogResponse(row) ==
    [id           |-> row.id,
     version      |-> row.version,
     title        |-> row.title,
     content      |-> row.content,
     created_at   |-> row.created_at,
     published_at |-> row.published_at,
     is_published |-> row.is_published]

(* What the caller of a storage handler receives. *)
Ok(body) == [status_code |-> 200, detail |-> "", body |-> <<body>>]

Failed(status_code, detail) == [status_code |-> status_code, detail |-> detail, body |-> <<>>]

(* publish_changelog up to the INSERT: the exists-check. *)
publish_check(rows, req) ==
    IF select_by_version(rows, req.version) # <<>>
    THEN Raise(HTTPException(400, "Version already exists"))
    ELSE Return(<<>>)

(* publish_changelog from the INSERT on: the new table and the response.   *)
(* An sqlite3 error is not caught: the framework answers 500.              *)
publish_insert(rows, req, now) ==
    LET inserted == insert_changelog(rows, req, now)
    IN  IF inserted.raised
        THEN [rows |-> rows, response |-> Failed(500, "Internal Server Error")]
        ELSE [rows |-> inserted.value,
              response |-> Ok(ChangelogResponse(inserted.value[Len(inserted.value)]))]

(* The rows of SELECT * FROM changelogs [WHERE is_published = ?]. *)
RECURSIVE select_changelogs(_, _)
select_changelogs(rows, published_only) ==
    IF rows = <<>> THEN <<>>
    ELSE (IF published_only /\ ~rows[1].is_published THEN <<>> ELSE <<rows[1]>>)
         \o select_changelogs(Tail(rows), published_only)

(* ORDER BY created_at DESC: every order of the selected rows that is      *)
(* descending in created_at; rows of one timestamp may come in any order.  *)
order_by_created_at_desc(selected) ==
    {[k \in 1..Len(selected) |-> selected[p[k]]] :
        p \in {q \in Permutations(1..Len(selected)) :
                  \A i, j \in 1..Len(selected) :
                      i < j => date_ge(selected[q[i]].created_at, selected[q[j]].created_at)}}

(* get_changelogs, for the order `fetched` in which fetchall() gave the rows. *)
get_changelogs(fetched) == Ok([k \in 1..Len(fetched) |-> ChangelogResponse(fetched[k])])

(* SELECT * FROM changelogs WHERE version = ? AND is_published = ? *)
select_published_version(rows, version) ==
    LET found == {i \in 1..Len(rows) : rows[i].version = version /\ rows[i].is_published}
    IN  IF found = {} THEN <<>>
        ELSE <<rows[CHOOSE i \in found : \A j \in found : i <= j]>>

get_changelog_by_version(rows, version) ==
    IF select_published_version(rows, version) = <<>>
    THEN Failed(404, "Changelog not found")
    ELSE Ok(ChangelogResponse(select_published_version(rows, version)[1]))

(* The server processes that share changelog.db. *)
Workers == {"w1", "w2"}

Versions == {"1.0.0", "1.1.0"}

Drafts ==
    {[title |-> "Changes - March", content |-> "## Features"],
     [title |-> "Changes - April", content |-> "## Bug Fixes"]}

PublishRequests ==
    {[version |-> v, title |-> d.title, content |-> d.content, raw_commits |-> "[]"] :
        v \in Versions, d \in Drafts}

NoPublishRequest == [version |-> "", title |-> "", content |-> "", raw_commits |-> ""]

NoResponse == [status_code |-> 0, detail |-> "", body |-> <<>>]

(* datetime.now() and CURRENT_TIMESTAMP of an INSERT: the publishes of the *)
(* model fall within one second, so ORDER BY created_at leaves their order *)
(* open.                                                                   *)
StoreClock == {now \in Clock : now.time = 0}

(* A process that is handling no publish request. *)
IdleWorker == [pc |-> "idle", request |-> NoPublishRequest, response |-> NoResponse]

NoReply ==
    [done |-> FALSE, op |-> "", version |-> "", published_only |-> FALSE,
     response |-> NoResponse]

---------------------------------------------------------------------------
(* The requests and the environment of one request. *)

RepoPaths == {"repo", "not_a_repository", "no_such_path"}

(* days: null, 1, and the default 7. *)
Days == {<<>>, <<1>>, <<7>>}

(* from_commit / to_commit: null, "", and two revisions. *)
Revs == {<<>>, <<"">>, <<"HEAD">>, <<"HEAD~1">>}

DefaultExcludePatterns ==
    << <<"^", "c", "h", "o", "r", "e", ":">>,
       <<"^", "d", "o", "c", "s", ":">>,
       <<"^", "t", "e", "s", "t", ":">>,
       <<"M", "e", "r", "g", "e", " ", "p", "u", "l", "l", " ", "r", "e", "q", "u", "e", "s", "t">>,
       <<"^", "c", "i", ":">>,
       <<"^", "b", "u", "i", "l", "d", ":">> >>

ChorePattern == <<"^", "c", "h", "o", "r", "e", ":">>

FixPattern == <<"f", "i", "x">>

BadPattern == <<"(">>

RequestPatterns ==
    {<<>>, DefaultExcludePatterns, <<ChorePattern, BadPattern>>, <<BadPattern, ChorePattern>>}

(* Every request on the repository, and the requests on a path that is no  *)
(* repository with the default patterns.                                    *)
Requests ==
    [repo_path : {"repo"}, days : Days, from_commit : Revs, to_commit : Revs,
     exclude_patterns : RequestPatterns]
    \cup
    [repo_path : RepoPaths \ {"repo"}, days : Days, from_commit : {<<>>, <<"HEAD">>},
     to_commit : {<<>>, <<"HEAD">>}, exclude_patterns : {DefaultExcludePatterns}]

AiText ==
    <<" ", " ", "#", "#", " ", "C", "h", "a", "n", "g", "e", "s", "\n", "-", " ", "e", "x", "p", "o", "r", "t", "\n">>

(* What the OpenAI client does on a call: raises (transport, auth, quota), *)
(* answers without choices, with a null content, with a blank content, or  *)
(* with text.                                                              *)
Completions ==
    {[raises |-> TRUE,  choices |-> <<>>],
     [raises |-> FALSE, choices |-> <<>>],
     [raises |-> FALSE, choices |-> <<[content |-> <<>>]>>],
     [raises |-> FALSE, choices |-> <<[content |-> << <<" ", "\n">> >>]>>],
     [raises |-> FALSE, choices |-> <<[content |-> <<AiText>>]>>]}

NoRequest ==
    [repo_path |-> "", days |-> <<>>, from_commit |-> <<>>, to_commit |-> <<>>,
     exclude_patterns |-> <<>>]

NoResult ==
    [done |-> FALSE, now |-> [day |-> 0, time |-> 0], tried |-> Return(<<>>),
     commits |-> <<>>, filtered_commits |-> <<>>, model_calls |-> 0,
     window |-> [form |-> "", since_date |-> <<>>],
     response |-> [status_code |-> 0, detail |-> "", cause |-> NoExc, body |-> <<>>]]

NoCall ==
    [fn |-> "", commits |-> <<>>, exclude_patterns |-> <<>>, filtered_commits |-> <<>>,
     completion |-> [raises |-> FALSE, choices |-> <<>>], locals |-> <<>>,
     ret |-> Return(<<>>)]

---------------------------------------------------------------------------
(* The service: one process, serving generate requests against a repository. *)

Init ==
    /\ openai_api_key \in BOOLEAN
    /\ repo \in Repositories
    /\ request = NoRequest
    /\ result = NoResult
    /\ call = NoCall
    /\ changelogs = <<>>
    /\ workers = [w \in Workers |-> IdleWorker]
    /\ reply = NoReply

(* One POST /api/generate, from the request to the response.  result keeps *)
(* the locals of the handler and what the try body raised or returned.     *)
Generate(requests) ==
    /\ ~result.done
    /\ ~reply.done
    /\ \E req \in requests, now \in Clock, completion \in Completions :
        LET tried == try_generate(req, now, completion)
        IN  /\ request' = req
            /\ result' =
                 [done     |-> TRUE,
                  now      |-> now,
                  tried    |-> tried.outcome,
                  commits  |-> tried.commits,
                  filtered_commits |-> tried.filtered_commits,
                  model_calls |-> tried.model_calls,
                  window   |-> IF git_Repo(req.repo_path).raised
                               THEN [form |-> "", since_date |-> <<>>]
                               ELSE git_window(req.days, req.from_commit, req.to_commit, now),
                  response |-> except_clauses(tried.outcome)]
    /\ UNCHANGED <<openai_api_key, repo, call, changelogs, workers, reply>>

GenerateChangelog == Generate(Requests)

(* The response has been sent: the entities of the request are discarded   *)
(* and the process waits for the next request.                             *)
Respond ==
    /\ result.done
    /\ request' = NoRequest
    /\ result' = NoResult
    /\ UNCHANGED <<openai_api_key, repo, call, changelogs, workers, reply>>

Next == GenerateChangelog \/ Respond

Spec == Init /\ [][Next]_vars

---------------------------------------------------------------------------
(* The functions applied on their own, to the commit records the service   *)
(* can build: a message is stripped, and may be empty or have several      *)
(* lines.                                                                  *)

CommitInfos ==
    {[hash |-> "a1b2c3d4", author |-> "alice", date |-> [day |-> 3, time |-> 0], files |-> <<>>,
      message |-> <<"f", "e", "a", "t", ":", " ", "a", "d", "d", " ", "x">>],
     [hash |-> "b2c3d4e5", author |-> "bob", date |-> [day |-> 2, time |-> 1], files |-> <<>>,
      message |-> <<"C", "H", "O", "R", "E", ":", " ", "b", "u", "m", "p">>],
     [hash |-> "c3d4e5f6", author |-> "alice", date |-> [day |-> 2, time |-> 0], files |-> <<>>,
      message |-> <<"c", "h", "o", "r", "e", ":", " ", "n", "e", "w", " ", "f", "i", "x">>],
     [hash |-> "d4e5f6a7", author |-> "carol", date |-> [day |-> 3, time |-> 1], files |-> <<>>,
      message |-> <<"U", "p", "d", "a", "t", "e", " ", "f", "i", "x">>],
     [hash |-> "e5f6a7b8", author |-> "bob", date |-> [day |-> 1, time |-> 0], files |-> <<>>,
      message |-> <<"E", "n", "h", "a", "n", "c", "e", "\n", "\n", "s", "e", "e", " ", "c", "h", "o", "r", "e", ":", " ", "1">>],
     [hash |-> "f6a7b8c9", author |-> "dave", date |-> [day |-> 1, time |-> 1], files |-> <<>>,
      message |-> <<"R", "e", "f", "a", "c", "t", "o", "r">>],
     [hash |-> "a7b8c9d0", author |-> "carol", date |-> [day |-> 0, time |-> 1], files |-> <<>>,
      message |-> <<>>]}

CommitLists == UNION {[1..n -> CommitInfos] : n \in 0..MaxCommits}

PatternLists ==
    UNION {[1..n -> {ChorePattern, FixPattern, BadPattern}] : n \in 0..MaxPatterns}

SummaryPatterns == {<<>>, <<ChorePattern>>, <<FixPattern>>, <<ChorePattern, FixPattern>>}

InitPure ==
    /\ openai_api_key \in BOOLEAN
    /\ repo = <<>>
    /\ request = NoRequest
    /\ result = NoResult
    /\ call = NoCall
    /\ changelogs = <<>>
    /\ workers = [w \in Workers |-> IdleWorker]
    /\ reply = NoReply

CallFilterCommits ==
    /\ call.fn = ""
    /\ \E commits \in CommitLists, exclude_patterns \in PatternLists :
           call' = [NoCall EXCEPT !.fn = "filter_commits",
                                  !.commits = commits,
                                  !.exclude_patterns = exclude_patterns,
                                  !.ret = filter_commits(commits, exclude_patterns)]
    /\ UNCHANGED <<openai_api_key, repo, request, result, changelogs, workers, reply>>

CallGenerateSimpleChangelog ==
    /\ call.fn = ""
    /\ \E commits \in CommitLists :
           call' = [NoCall EXCEPT !.fn = "generate_simple_changelog",
                                  !.commits = commits,
                                  !.locals = <<simple_buckets(commits)>>,
                                  !.ret = Return(generate_simple_changelog(commits))]
    /\ UNCHANGED <<openai_api_key, repo, request, result, changelogs, workers, reply>>

CallGenerateAiChangelog ==
    /\ call.fn = ""
    /\ \E commits \in CommitLists, completion \in Completions :
           call' = [NoCall EXCEPT !.fn = "generate_ai_changelog",
                                  !.commits = commits,
                                  !.completion = completion,
                                  !.ret = generate_ai_changelog(commits, completion)]
    /\ UNCHANGED <<openai_api_key, repo, request, result, changelogs, workers, reply>>

(* The summary of a commit list and of what a filter leaves of it. *)
CallSummary ==
    /\ call.fn = ""
    /\ \E commits \in CommitLists, exclude_patterns \in SummaryPatterns :
           /\ call' = [NoCall EXCEPT
                          !.fn = "summary",
                          !.commits = commits,
                          !.filtered_commits = filter_commits(commits, exclude_patterns).value,
                          !.ret = Return(summary_of(commits,
                                      filter_commits(commits, exclude_patterns).value))]
    /\ UNCHANGED <<openai_api_key, repo, request, result, changelogs, workers, reply>>

(* The call has returned to its caller. *)
CallReturns ==
    /\ call.fn # ""
    /\ call' = NoCall
    /\ UNCHANGED <<openai_api_key, repo, request, result, changelogs, workers, reply>>

NextPure ==
    \/ CallFilterCommits
    \/ CallGenerateSimpleChangelog
    \/ CallGenerateAiChangelog
    \/ CallSummary
    \/ CallReturns

SpecPure == InitPure /\ [][NextPure]_vars

---------------------------------------------------------------------------
(* The service with its store: processes that share changelog.db handle    *)
(* publish requests, each in two steps on the database (the exists-check,  *)
(* then the INSERT), so the steps of two processes can interleave; list,   *)
(* fetch and generate requests are handled in one step each, one request   *)
(* at a time: a handler of main.py never yields before it returns.         *)

(* The request of the command-line client's defaults. *)
DefaultRequests ==
    {[repo_path |-> "repo", days |-> <<7>>, from_commit |-> <<>>, to_commit |-> <<>>,
      exclude_patterns |-> DefaultExcludePatterns]}

(* The repository of the store specification: one commit, the root. *)
StoreRepositories == {r \in Repositories : Len(r) = 1 /\ r[1].author = "alice"}

InitStore ==
    /\ openai_api_key \in BOOLEAN
    /\ repo \in StoreRepositories
    /\ request = NoRequest
    /\ result = NoResult
    /\ call = NoCall
    /\ changelogs = <<>>
    /\ workers = [w \in Workers |-> IdleWorker]
    /\ reply = NoReply

GenerateDefaults == Generate(DefaultRequests)

(* POST /api/publish reaches process w, which runs the exists-check. *)
PublishCheck(w) ==
    /\ workers[w].pc = "idle"
    /\ \E req \in PublishRequests :
           workers' = [workers EXCEPT ![w] =
               IF publish_check(changelogs, req).raised
               THEN [pc |-> "responded", request |-> req,
                     response |-> Failed(publish_check(changelogs, req).exc.status_code,
                                         publish_check(changelogs, req).exc.detail)]
               ELSE [pc |-> "checked", request |-> req, response |-> NoResponse]]
    /\ UNCHANGED <<openai_api_key, repo, request, result, call, changelogs, reply>>

(* Process w runs the INSERT, commits, reads the row back and answers. *)
PublishInsert(w) ==
    /\ workers[w].pc = "checked"
    /\ \E now \in StoreClock :
           LET done == publish_insert(changelogs, workers[w].request, now)
           IN  /\ changelogs' = done.rows
               /\ workers' = [workers EXCEPT ![w] =
                      [pc |-> "responded", request |-> workers[w].request,
                       response |-> done.response]]
    /\ UNCHANGED <<openai_api_key, repo, request, result, call, reply>>

(* The response of process w has been sent. *)
PublishReturns(w) ==
    /\ workers[w].pc = "responded"
    /\ workers' = [workers EXCEPT ![w] = IdleWorker]
    /\ UNCHANGED <<openai_api_key, repo, request, result, call, changelogs, reply>>

(* One GET /api/changelog. *)
GetChangelogs ==
    /\ ~reply.done
    /\ ~result.done
    /\ \E published_only \in BOOLEAN :
       \E fetched \in order_by_created_at_desc(select_changelogs(changelogs, published_only)) :
           reply' = [done |-> TRUE, op |-> "get_changelogs", version |-> "",
                     published_only |-> published_only,
                     response |-> get_changelogs(fetched)]
    /\ UNCHANGED <<openai_api_key, repo, request, result, call, changelogs, workers>>

(* One GET /api/changelog/{version}. *)
GetChangelogByVersion ==
    /\ ~reply.done
    /\ ~result.done
    /\ \E version \in Versions \cup {"9.9.9"} :
           reply' = [done |-> TRUE, op |-> "get_changelog_by_version", version |-> version,
                     published_only |-> FALSE,
                     response |-> get_changelog_by_version(changelogs, version)]
    /\ UNCHANGED <<openai_api_key, repo, request, result, call, changelogs, workers>>

(* The response of a list or fetch request has been sent. *)
ReplySent ==
    /\ reply.done
    /\ reply' = NoReply
    /\ UNCHANGED <<openai_api_key, repo, request, result, call, changelogs, workers>>

NextStore ==
    \/ GenerateDefaults
    \/ Respond
    \/ \E w \in Workers : PublishCheck(w)
    \/ \E w \in Workers : PublishInsert(w)
    \/ \E w \in Workers : PublishReturns(w)
    \/ GetChangelogs
    \/ GetChangelogByVersion
    \/ ReplySent

SpecStore == InitStore /\ [][NextStore]_vars

---------------------------------------------------------------------------
(* The error kinds of the specification, as responses. *)

InvalidRepository(response) == response.status_code = 400

NoCommitsFound(response) ==
    /\ response.status_code = 404
    /\ response.detail = "No commits found in the specified range"

NoRelevantCommitsFound(response) ==
    /\ response.status_code = 404
    /\ response.detail = "No relevant commits found after filtering"

InternalFailure(response) == response.status_code = 500

(* Why a request failed, read from the request and the handler's locals. *)
RepositoryIsInvalid == request.repo_path \in {"not_a_repository", "no_such_path"}

SourceReturnedNoCommits == result.commits = << <<>> >>

FilterRemovedEveryCommit == result.filtered_commits = << <<>> >>

(* C1: a request that fails because the repository is invalid, because the *)
(* commit source returned no commits or because the filter removed every   *)
(* commit reaches the caller as InvalidRepository, NoCommitsFound or       *)
(* NoRelevantCommitsFound, never as InternalFailure; InternalFailure is    *)
(* surfaced only for an exception that is none of the handler's own        *)
(* HTTPExceptions.                                                         *)
C1_SpecificFailureKinds ==
    result.done =>
        /\ RepositoryIsInvalid => InvalidRepository(result.response)
        /\ SourceReturnedNoCommits => NoCommitsFound(result.response)
        /\ FilterRemovedEveryCommit => NoRelevantCommitsFound(result.response)
        /\ InternalFailure(result.response) => result.tried.exc.type # "HTTPException"

(* C2: an empty window (an empty two-dot range included) fails with        *)
(* NoCommitsFound, a window whose commits are all excluded fails with      *)
(* NoRelevantCommitsFound, and the two responses differ.                   *)
C2_EmptyWindowKinds ==
    result.done =>
        /\ SourceReturnedNoCommits =>
               /\ NoCommitsFound(result.response)
               /\ ~NoRelevantCommitsFound(result.response)
        /\ FilterRemovedEveryCommit =>
               /\ NoRelevantCommitsFound(result.response)
               /\ ~NoCommitsFound(result.response)

---------------------------------------------------------------------------
(* Text comparisons in which the claims are stated. *)

SameIgnoringCase(a, b) ==
    /\ Len(a) = Len(b)
    /\ \A i \in 1..Len(a) : chr_lower(a[i]) = chr_lower(b[i])

StartsWithIgnoringCase(w, s) ==
    Len(w) <= Len(s) /\ SameIgnoringCase(SubSeq(s, 1, Len(w)), w)

ContainsIgnoringCase(w, s) ==
    \E i \in 1..(Len(s) - Len(w) + 1) : SameIgnoringCase(SubSeq(s, i, i + Len(w) - 1), w)

(* A pattern of literal characters, anchored by a leading ^ or not, is     *)
(* found in a message.                                                     *)
PatternMatches(pattern, message) ==
    IF pattern # <<>> /\ pattern[1] = "^"
    THEN StartsWithIgnoringCase(Tail(pattern), message)
    ELSE ContainsIgnoringCase(pattern, message)

WellFormed(patterns) ==
    \A k \in 1..Len(patterns) : \A i \in 1..Len(patterns[k]) : patterns[k][i] \notin {"(", ")"}

RECURSIVE IsSubsequence(_, _)
IsSubsequence(a, b) ==
    IF a = <<>> THEN TRUE
    ELSE IF b = <<>> THEN FALSE
    ELSE IF a[1] = b[1] THEN IsSubsequence(Tail(a), Tail(b))
    ELSE IsSubsequence(a, Tail(b))

FailsByRaising(completion) == completion.raises

Malformed(completion) ==
    /\ ~completion.raises
    /\ \/ completion.choices = <<>>
       \/ completion.choices[1].content = <<>>

Blank(completion) ==
    /\ ~completion.raises
    /\ completion.choices # <<>>
    /\ completion.choices[1].content # <<>>
    /\ \A i \in 1..Len(completion.choices[1].content[1]) :
           completion.choices[1].content[1][i] \in Whitespace

(* C3 as claimed: generate_ai_changelog never raises, and returns the text *)
(* of generate_simple_changelog for the same commits when no credential is *)
(* configured or the model call fails in any way: it raises, or its        *)
(* response is malformed or empty.                                         *)
C3_FallbackOnAnyFailure ==
    call.fn = "generate_ai_changelog" =>
        /\ ~call.ret.raised
        /\ (\/ ~openai_api_key
            \/ FailsByRaising(call.completion)
            \/ Malformed(call.completion)
            \/ Blank(call.completion))
           => call.ret.value = generate_simple_changelog(call.commits)

(* C3 amended: generate_ai_changelog never raises; it returns the text of  *)
(* generate_simple_changelog for the same commits when no credential is    *)
(* configured, when the model call raises and when its response has no     *)
(* choice or a null content; a response whose content is empty or blank is *)
(* returned stripped, as the empty text.                                   *)
C3_FallbackOnRaiseOrMalformed ==
    call.fn = "generate_ai_changelog" =>
        /\ ~call.ret.raised
        /\ (\/ ~openai_api_key
            \/ FailsByRaising(call.completion)
            \/ Malformed(call.completion))
           => call.ret.value = generate_simple_changelog(call.commits)
        /\ (openai_api_key /\ Blank(call.completion)) => call.ret.value = <<>>

C3_Witness ==
    /\ call.fn = "generate_ai_changelog"
    /\ openai_api_key
    /\ FailsByRaising(call.completion)
    /\ Len(call.commits) >= 2
    /\ call.ret.value # <<>>

(* C4: with well-formed patterns, what filter_commits returns is a         *)
(* subsequence of its input in the input's order, and the input itself     *)
(* when there is no pattern.                                               *)
C4_FilterIsOrderedSubsequence ==
    (call.fn = "filter_commits" /\ WellFormed(call.exclude_patterns)) =>
        /\ ~call.ret.raised
        /\ IsSubsequence(call.ret.value, call.commits)
        /\ call.exclude_patterns = <<>> => call.ret.value = call.commits

C4_Witness ==
    /\ call.fn = "filter_commits"
    /\ WellFormed(call.exclude_patterns)
    /\ call.exclude_patterns # <<>>
    /\ Len(call.commits) = 3
    /\ Len(call.ret.value) = 2
    /\ call.ret.value[1] # call.ret.value[2]
    /\ call.ret.value = <<call.commits[1], call.commits[3]>>

(* C5: filter_commits drops exactly the commits whose message some pattern *)
(* matches, anywhere in the message and whatever the letter case; a        *)
(* message that starts with "chore:" in any case is dropped by "^chore:".  *)
C5_DropsIffSomePatternMatches ==
    (call.fn = "filter_commits" /\ WellFormed(call.exclude_patterns)) =>
        /\ ~call.ret.raised
        /\ call.ret.value =
               SelectSeq(call.commits,
                         LAMBDA c : \A k \in 1..Len(call.exclude_patterns) :
                                        ~PatternMatches(call.exclude_patterns[k], c.message))
        /\ \A i \in 1..Len(call.commits) :
               (/\ StartsWithIgnoringCase(<<"c", "h", "o", "r", "e", ":">>, call.commits[i].message)
                /\ \E k \in 1..Len(call.exclude_patterns) :
                       call.exclude_patterns[k] = <<"^", "c", "h", "o", "r", "e", ":">>)
               => \A j \in 1..Len(call.ret.value) : call.ret.value[j] # call.commits[i]

(* An upper-case CHORE: and a "fix" in the middle of a message are dropped, *)
(* a "chore:" on a later line of a message is not.                          *)
C5_Witness ==
    /\ call.fn = "filter_commits"
    /\ call.exclude_patterns = <<ChorePattern, FixPattern>>
    /\ Len(call.commits) = 3
    /\ call.commits[1].message = <<"C", "H", "O", "R", "E", ":", " ", "b", "u", "m", "p">>
    /\ call.commits[2].message = <<"U", "p", "d", "a", "t", "e", " ", "f", "i", "x">>
    /\ ContainsIgnoringCase(<<"c", "h", "o", "r", "e", ":">>, call.commits[3].message)
    /\ call.ret.value = <<call.commits[3]>>

---------------------------------------------------------------------------
(* The buckets as the claims state them. *)

FeaturesKeywords ==
    {<<"f", "e", "a", "t">>, <<"f", "e", "a", "t", "u", "r", "e">>, <<"a", "d", "d">>, <<"n", "e", "w">>}

BugFixesKeywords ==
    {<<"f", "i", "x">>, <<"b", "u", "g">>, <<"r", "e", "s", "o", "l", "v", "e">>, <<"p", "a", "t", "c", "h">>}

ImprovementsKeywords ==
    {<<"i", "m", "p", "r", "o", "v", "e">>, <<"e", "n", "h", "a", "n", "c", "e">>,
     <<"u", "p", "d", "a", "t", "e">>, <<"o", "p", "t", "i", "m", "i", "z", "e">>}

Mentions(message, keywords) == \E w \in keywords : ContainsIgnoringCase(w, message)

BucketNames == <<"features", "fixes", "improvements", "other">>

(* The earliest bucket one of whose keywords the message contains. *)
ExpectedBucket(message) ==
    IF Mentions(message, FeaturesKeywords) THEN "features"
    ELSE IF Mentions(message, BugFixesKeywords) THEN "fixes"
    ELSE IF Mentions(message, ImprovementsKeywords) THEN "improvements"
    ELSE "other"

(* The messages of the commits of a bucket, in input order. *)
MessagesOf(commits, b) ==
    LET chosen == SelectSeq(commits, LAMBDA c : ExpectedBucket(c.message) = b)
    IN  [i \in 1..Len(chosen) |-> chosen[i].message]

(* C6: every commit is in exactly one of the four lists, the one of the    *)
(* earliest bucket whose keywords its message contains in any letter case, *)
(* Other when it contains none.                                            *)
C6_EarliestBucketWins ==
    call.fn = "generate_simple_changelog" =>
        /\ \A k \in 1..4 :
               call.locals[1][BucketNames[k]] =
                   [i \in 1..Len(MessagesOf(call.commits, BucketNames[k]))
                        |-> <<"-", " ">> \o MessagesOf(call.commits, BucketNames[k])[i]]
        /\ Len(call.locals[1].features) + Len(call.locals[1].fixes)
             + Len(call.locals[1].improvements) + Len(call.locals[1].other)
           = Len(call.commits)

(* A message with keywords of Features and Bug Fixes, one with keywords of *)
(* Bug Fixes and Improvements, and one with none.                          *)
C6_Witness ==
    /\ call.fn = "generate_simple_changelog"
    /\ Len(call.commits) = 3
    /\ Mentions(call.commits[1].message, FeaturesKeywords)
    /\ Mentions(call.commits[1].message, BugFixesKeywords)
    /\ ~Mentions(call.commits[2].message, FeaturesKeywords)
    /\ Mentions(call.commits[2].message, BugFixesKeywords)
    /\ Mentions(call.commits[2].message, ImprovementsKeywords)
    /\ ExpectedBucket(call.commits[3].message) = "other"
    /\ Len(call.locals[1].features) = 1
    /\ Len(call.locals[1].fixes) = 1
    /\ Len(call.locals[1].other) = 1

---------------------------------------------------------------------------
(* The changelog text as lines. *)

RECURSIVE LinesOf(_)
LinesOf(text) ==
    IF \A i \in 1..Len(text) : text[i] # "\n" THEN <<text>>
    ELSE LET n == CHOOSE i \in 1..Len(text) :
                      text[i] = "\n" /\ \A j \in 1..(i - 1) : text[j] # "\n"
         IN  <<SubSeq(text, 1, n - 1)>> \o LinesOf(SubSeq(text, n + 1, Len(text)))

RECURSIVE BulletLines(_)
BulletLines(messages) ==
    IF messages = <<>> THEN <<>>
    ELSE LinesOf(<<"-", " ">> \o messages[1]) \o BulletLines(Tail(messages))

HeadingOf(b) ==
    IF b = "features"
    THEN <<"#", "#", " ", "<rocket>", " ", "N", "e", "w", " ", "F", "e", "a", "t", "u", "r", "e", "s">>
    ELSE IF b = "fixes"
    THEN <<"#", "#", " ", "<bug>", " ", "B", "u", "g", " ", "F", "i", "x", "e", "s">>
    ELSE IF b = "improvements"
    THEN <<"#", "#", " ", "<bulb>", " ", "I", "m", "p", "r", "o", "v", "e", "m", "e", "n", "t", "s">>
    ELSE <<"#", "#", " ", "<memo>", " ", "O", "t", "h", "e", "r", " ", "C", "h", "a", "n", "g", "e", "s">>

(* The lines of the sections from bucket k on: a heading and the bullets   *)
(* of each non-empty bucket, one empty line between two sections.          *)
RECURSIVE SectionLines(_, _, _)
SectionLines(commits, k, first) ==
    IF k > 4 THEN <<>>
    ELSE IF MessagesOf(commits, BucketNames[k]) = <<>> THEN SectionLines(commits, k + 1, first)
    ELSE (IF first THEN <<>> ELSE << <<>> >>)
         \o <<HeadingOf(BucketNames[k])>>
         \o BulletLines(MessagesOf(commits, BucketNames[k]))
         \o SectionLines(commits, k + 1, FALSE)

RECURSIVE WithoutTrailingWhitespace(_)
WithoutTrailingWhitespace(line) ==
    IF line = <<>> THEN line
    ELSE IF line[Len(line)] \in Whitespace
    THEN WithoutTrailingWhitespace(SubSeq(line, 1, Len(line) - 1))
    ELSE line

(* The expected lines; the bullet of an empty message that ends the text   *)
(* is "-", its trailing blank being trailing whitespace of the text.       *)
ExpectedLines(commits) ==
    LET lines == SectionLines(commits, 1, TRUE)
    IN  IF lines = <<>> THEN lines
        ELSE [lines EXCEPT ![Len(lines)] = WithoutTrailingWhitespace(@)]

(* C7: the text of generate_simple_changelog has a section for exactly the *)
(* non-empty buckets, in the order Features, Bug Fixes, Improvements,      *)
(* Other, each with one bullet per commit of the bucket carrying its       *)
(* message whole and in input order, and no trailing whitespace; it is     *)
(* the empty text for no commits.                                          *)
C7_SectionsOfNonEmptyBuckets ==
    call.fn = "generate_simple_changelog" =>
        /\ ~call.ret.raised
        /\ call.commits = <<>> => call.ret.value = <<>>
        /\ call.commits # <<>> =>
               /\ LinesOf(call.ret.value) = ExpectedLines(call.commits)
               /\ call.ret.value # <<>>
               /\ call.ret.value[Len(call.ret.value)] \notin Whitespace

(* Two sections, out of input order, the second with two bullets. *)
C7_Witness ==
    /\ call.fn = "generate_simple_changelog"
    /\ Len(call.commits) = 3
    /\ ExpectedBucket(call.commits[1].message) = "other"
    /\ ExpectedBucket(call.commits[2].message) = "fixes"
    /\ ExpectedBucket(call.commits[3].message) = "other"
    /\ call.commits[1] # call.commits[3]
    /\ call.commits[1].message # <<>>
    /\ call.commits[3].message # <<>>
    /\ Len(LinesOf(call.ret.value)) = 6
    /\ LinesOf(call.ret.value)[2] = <<"-", " ">> \o call.commits[2].message
    /\ LinesOf(call.ret.value)[6] = <<"-", " ">> \o call.commits[3].message

(* C8: the summary counts both lists, holds the distinct authors of the    *)
(* filtered commits, and takes to from the first filtered commit and from  *)
(* from the last; with no filtered commit both dates are null and authors  *)
(* is empty.                                                               *)
C8_SummaryByPosition ==
    call.fn = "summary" =>
        LET summary == call.ret.value
            n == Len(call.filtered_commits)
        IN  /\ summary.total_commits = Len(call.commits)
            /\ summary.filtered_commits = n
            /\ \A a \in summary.authors : \E i \in 1..n : call.filtered_commits[i].author = a
            /\ \A i \in 1..n : call.filtered_commits[i].author \in summary.authors
            /\ n > 0 => /\ summary.date_range.to = <<call.filtered_commits[1].date>>
                        /\ summary.date_range.from = <<call.filtered_commits[n].date>>
            /\ n = 0 => /\ summary.date_range.to = <<>>
                        /\ summary.date_range.from = <<>>
                        /\ summary.authors = {}

C8_Witness ==
    /\ call.fn = "summary"
    /\ Len(call.commits) = 3
    /\ Len(call.filtered_commits) = 2
    /\ call.filtered_commits[1].author = call.filtered_commits[2].author
    /\ call.filtered_commits[1].date # call.filtered_commits[2].date
    /\ Cardinality(call.ret.value.authors) = 1

---------------------------------------------------------------------------
(* Dates as instants. *)

Earlier(a, b) == a.day < b.day \/ (a.day = b.day /\ a.time < b.time)

(* C9: in a successful result, date_range.from is the oldest and           *)
(* date_range.to the newest date among the surviving commits.              *)
C9_DateRangeIsOldestToNewest ==
    (result.done /\ result.response.status_code = 200) =>
        LET summary == result.response.body[1].summary
            surviving == result.filtered_commits[1]
        IN  /\ summary.date_range.from # <<>>
            /\ summary.date_range.to # <<>>
            /\ \A i \in 1..Len(surviving) :
                   /\ ~Earlier(surviving[i].date, summary.date_range.from[1])
                   /\ ~Earlier(summary.date_range.to[1], surviving[i].date)

(* A request names a revision: the field is present and not empty. *)
Supplied(rev) == rev \in {<<"HEAD">>, <<"HEAD~1">>}

(* What get_git_commits gives the handler: its list, or <<>> when it raises. *)
Enumerated(days) ==
    LET got == get_git_commits(request.repo_path, days, request.from_commit,
                               request.to_commit, result.now)
    IN  IF got.raised THEN <<>> ELSE <<got.value>>

(* C10: once the repository is open, the two-dot range is used exactly     *)
(* when both from_commit and to_commit are supplied, and then the day      *)
(* count changes nothing of what is enumerated; otherwise the commits are  *)
(* those from HEAD back to the first one older than today's midnight minus *)
(* the day count.                                                          *)
C10_OneWindowForm ==
    (result.done /\ result.window.form # "") =>
        /\ result.window.form \in {"range", "since"}
        /\ result.window.form = "range"
             <=> (Supplied(request.from_commit) /\ Supplied(request.to_commit))
        /\ result.window.form = "range" =>
               \A days \in Days : Enumerated(days) = result.commits
        /\ (result.window.form = "since" /\ request.days # <<>>) =>
               LET since == [day |-> result.now.day - request.days[1], time |-> 0]
               IN  /\ result.window.since_date = <<since>>
                   /\ result.commits # <<>>
                   /\ Len(result.commits[1]) <= Len(repo)
                   /\ \A i \in 1..Len(result.commits[1]) :
                          /\ result.commits[1][i].hash = SubSeq(repo[i].hexsha, 1, 8)
                          /\ ~Earlier(repo[i].committed_datetime, since)
                   /\ Len(result.commits[1]) < Len(repo) =>
                          Earlier(repo[Len(result.commits[1]) + 1].committed_datetime, since)

(* Both hashes and a day count whose window on its own would be empty. *)
C10_Witness ==
    /\ result.done
    /\ result.window.form = "range"
    /\ request.days = <<1>>
    /\ result.commits # <<>>
    /\ Len(result.commits[1]) = 1
    /\ Enumerated(<<1>>) = result.commits
    /\ Earlier(repo[1].committed_datetime, [day |-> result.now.day - 1, time |-> 0])

---------------------------------------------------------------------------
(* The pipeline, continued. *)

(* The response of a configuration that is rejected for its patterns. *)
InvalidPattern(response) ==
    /\ response.status_code = 400
    /\ response.detail = "Invalid pattern"

CarriesMalformedPattern ==
    \E k \in 1..Len(request.exclude_patterns) : request.exclude_patterns[k] = BadPattern

(* C12: a request on a repository that carries a malformed pattern, at any *)
(* place of its list and whatever the window yields, is rejected with      *)
(* InvalidPattern before the commits are read.                             *)
C12_MalformedPatternRejectedFirst ==
    (result.done /\ ~RepositoryIsInvalid /\ CarriesMalformedPattern) =>
        /\ InvalidPattern(result.response)
        /\ result.commits = <<>>

(* The handler reached the compose call: both emptiness checks passed. *)
Composed == result.filtered_commits # <<>> /\ result.filtered_commits[1] # <<>>

(* C13: no step of the process changes whether a credential is configured, *)
(* and every compose call attempts the model exactly when it is: over the  *)
(* requests of one process, in every compose call or in none.              *)
C13_StrategyFixedAtStart ==
    /\ [][openai_api_key' = openai_api_key]_vars
    /\ []((result.done /\ Composed) => (result.model_calls > 0 <=> openai_api_key))

(* A compose call of a process with a credential: the model's text. *)
C13_Witness ==
    /\ result.done
    /\ Composed
    /\ openai_api_key
    /\ result.model_calls = 1
    /\ result.response.status_code = 200
    /\ result.response.body[1].content = str_strip(AiText)

(* C14: one request sends at most one completion request, and none when    *)
(* the repository is invalid, the source returned no commits or the filter *)
(* removed every commit.                                                   *)
C14_AtMostOneCallAfterChecks ==
    result.done =>
        /\ result.model_calls <= 1
        /\ (RepositoryIsInvalid \/ SourceReturnedNoCommits \/ FilterRemovedEveryCommit)
               => result.model_calls = 0
        /\ result.model_calls = 1 => Composed

(* A completion request that failed, followed by the fallback text. *)
C14_Witness ==
    /\ result.done
    /\ openai_api_key
    /\ result.model_calls = 1
    /\ result.response.status_code = 200
    /\ result.response.body[1].content = generate_simple_changelog(result.filtered_commits[1])

(* C15: a title is computed only when a commit survived the filter, and it *)
(* is built from the date of the first surviving commit, never from the    *)
(* current date.                                                           *)
C15_TitleFromFirstSurvivingCommit ==
    (result.done /\ ~result.tried.raised) =>
        /\ result.filtered_commits # <<>>
        /\ Len(result.filtered_commits[1]) > 0
        /\ result.tried.value.title.of = "commit"
        /\ result.tried.value.title.day = result.filtered_commits[1][1].date.day

(* A title of another day than the current one. *)
C15_Witness ==
    /\ result.done
    /\ result.response.status_code = 200
    /\ result.response.body[1].title.of = "commit"
    /\ result.response.body[1].title.day # result.now.day

(* The position in the history of the first commit of the enumeration. *)
FirstEnumerated ==
    IF result.window.form = "range" /\ request.to_commit = <<"HEAD~1">> THEN 2 ELSE 1

(* The number of commits of the enumeration. *)
CountEnumerated ==
    IF result.window.form = "range"
    THEN IF request.from_commit = <<"HEAD~1">> /\ request.to_commit = <<"HEAD">> THEN 1 ELSE 0
    ELSE LET since == [day |-> result.now.day - request.days[1], time |-> 0]
         IN  CHOOSE n \in 0..Len(repo) :
                 /\ \A i \in 1..n : ~Earlier(repo[i].committed_datetime, since)
                 /\ n < Len(repo) => Earlier(repo[n + 1].committed_datetime, since)

IsRoot(i) == i = Len(repo)

(* C16: get_git_commits returns one record for each enumerated commit, in  *)
(* the order of the enumeration; the record of a root commit and of a      *)
(* commit whose diff fails has an empty file list, and every record has    *)
(* the hash, message, author and date of its commit.                       *)
C16_OneRecordPerCommit ==
    (result.done /\ result.commits # <<>>) =>
        LET records == result.commits[1]
        IN  /\ Len(records) = CountEnumerated
            /\ \A k \in 1..Len(records) :
                   LET i == FirstEnumerated + k - 1
                   IN  /\ records[k].hash = SubSeq(repo[i].hexsha, 1, 8)
                       /\ records[k].message = str_strip(repo[i].message)
                       /\ records[k].author = repo[i].author
                       /\ records[k].date = repo[i].committed_datetime
                       /\ records[k].files =
                              IF IsRoot(i) \/ repo[i].diff_fails THEN <<>> ELSE repo[i].paths

(* The diff of the first commit fails; the root commit follows it. *)
C16_Witness ==
    /\ result.done
    /\ result.commits # <<>>
    /\ Len(result.commits[1]) = 2
    /\ repo[1].diff_fails
    /\ result.commits[1][1].files = <<>>
    /\ repo[2].paths # <<>>
    /\ result.commits[1][2].files = <<>>
    /\ result.commits[1][2].hash = SubSeq(repo[2].hexsha, 1, 8)

---------------------------------------------------------------------------
(* The store. *)

(* A publish of process w has failed: its response is an error. *)
PublishFailed(w) == workers[w].pc = "responded" /\ workers[w].response.status_code # 200

(* C11: whatever the interleaving of the exists-checks and the inserts of  *)
(* concurrent publish requests, the store never holds two changelogs of    *)
(* one version, and a step in which a publish of a stored version ends     *)
(* ends it with a failure and leaves the stored records as they were.      *)
C11_VersionsStayUnique ==
    /\ [](\A i, j \in 1..Len(changelogs) :
              changelogs[i].version = changelogs[j].version => i = j)
    /\ [][\A w \in Workers :
              (/\ workers[w].pc \in {"idle", "checked"}
               /\ workers'[w].pc = "responded"
               /\ \E i \in 1..Len(changelogs) :
                      changelogs[i].version = workers'[w].request.version)
              => (workers'[w].response.status_code # 200 /\ changelogs' = changelogs)]_vars

(* Two processes passed the exists-check for one version; one inserted it  *)
(* and the other's insert failed.                                          *)
C11_Witness ==
    /\ workers["w1"].pc = "responded"
    /\ workers["w2"].pc = "responded"
    /\ workers["w1"].request.version = workers["w2"].request.version
    /\ workers["w1"].response.status_code = 200
    /\ workers["w2"].response.status_code = 500
    /\ Len(changelogs) = 1
    /\ changelogs[1].version = workers["w2"].request.version

(* The response record r is that of the stored row. *)
ShowsRow(r, row) ==
    /\ r.version = row.version
    /\ r.title = row.title
    /\ r.content = row.content
    /\ r.is_published

(* C17: a publish that succeeded has stored its version, title and content *)
(* as a published row; no step removes or changes a stored row, and a      *)
(* generate request leaves the store as it was; so in every later state a  *)
(* fetch of a stored version succeeds with the row's title and content and *)
(* a list, with or without the published-only filter, has every stored row.*)
C17_PublishedStaysAvailable ==
    /\ [](\A w \in Workers :
              (workers[w].pc = "responded" /\ workers[w].response.status_code = 200) =>
                  \E i \in 1..Len(changelogs) :
                      /\ changelogs[i].version = workers[w].request.version
                      /\ changelogs[i].title = workers[w].request.title
                      /\ changelogs[i].content = workers[w].request.content
                      /\ changelogs[i].is_published)
    /\ [][/\ Len(changelogs') >= Len(changelogs)
          /\ \A i \in 1..Len(changelogs) : changelogs'[i] = changelogs[i]
          /\ result' # result => changelogs' = changelogs]_vars
    /\ [][(~reply.done /\ reply'.done /\ reply'.op = "get_changelog_by_version") =>
              \A i \in 1..Len(changelogs) :
                  changelogs[i].version = reply'.version =>
                      /\ reply'.response.status_code = 200
                      /\ ShowsRow(reply'.response.body[1], changelogs[i])]_vars
    /\ [][(~reply.done /\ reply'.done /\ reply'.op = "get_changelogs") =>
              /\ reply'.response.status_code = 200
              /\ \A i \in 1..Len(changelogs) :
                     \E k \in 1..Len(reply'.response.body[1]) :
                         ShowsRow(reply'.response.body[1][k], changelogs[i])]_vars

(* The first published version is fetched after a second version has been  *)
(* published and after a publish of the first version has been refused.    *)
C17_Witness ==
    /\ Len(changelogs) = 2
    /\ reply.done
    /\ reply.op = "get_changelog_by_version"
    /\ reply.version = changelogs[1].version
    /\ reply.response.status_code = 200
    /\ reply.response.body[1].title = changelogs[1].title
    /\ \E w \in Workers :
           /\ workers[w].pc = "responded"
           /\ workers[w].response.status_code = 400
           /\ workers[w].request.version = changelogs[1].version
           /\ workers[w].request.title # changelogs[1].title

====
